---- MODULE Spec2Model ----
(***************************************************************************)
(* A model of the 6502 core in src/cpu.rs: the CPU struct, its memory      *)
(* helpers, reset, load, load_and_run, the ADC operation, the run loop and *)
(* the opcode table built by create_ops_info.                              *)
(*                                                                         *)
(* Bytes are integers in 0..255 and addresses integers in 0..65535; every  *)
(* Rust operator on them is modelled by an operator that computes what the *)
(* Rust operator computes at that width.  A Rust panic (an index out of    *)
(* bounds) ends the process: mode becomes "Panicked" and nothing follows.  *)
(***************************************************************************)
EXTENDS Integers, Sequences, FiniteSets, TLC

(***************************************************************************)
(* Bounds of the model.                                                    *)
(***************************************************************************)
\* The longest program the host loads.
MaxProgLen == 3

\* The number of times the host enters run() on one CPU.
MaxRuns == 2

\* The bytes programs are made of: BRK, 0x50, ADC #imm, LDA #imm, TAX, INX
\* and 0xFF (a byte with no descriptor in the opcode table).
ProgBytes == {0, 80, 105, 169, 170, 232, 255}

\* The values the host stores in the public register fields.
AccVals == {80, 208}
XVals == {255}
YVals == {1}

\* The bus addresses the host reads and writes directly (the low byte of the
\* reset vector and the last address of the 16-bit bus), and the value it
\* writes.
PokeAddrs == {65532, 65535}
PokeVals == {1}

\* The addresses the host reads and writes 16-bit values at (the reset vector
\* and the last pair of the 16-bit bus), and the values it writes.
WordAddrs == {65532, 65534}
WordVals == {255, 32769}

(***************************************************************************)
(* Program constants.                                                      *)
(***************************************************************************)
\* memory: [u8; 0xffff]
MemSize == 65535
\* load copies the program to 0x8000
ProgramOrigin == 32768
\* reset reads the program counter from 0xfffc
ResetVector == 65532
\* the opcode bytes run() matches on
OpBRK == 0
OpADC == 105

Byte == 0..255

(***************************************************************************)
(* Rust's bitwise operators on unsigned integers.                          *)
(***************************************************************************)
RECURSIVE BitAnd(_, _)
BitAnd(a, b) ==
    IF a = 0 \/ b = 0 THEN 0
    ELSE (IF a % 2 = 1 /\ b % 2 = 1 THEN 1 ELSE 0) + 2 * BitAnd(a \div 2, b \div 2)

RECURSIVE BitOr(_, _)
BitOr(a, b) ==
    IF a = 0 THEN b
    ELSE IF b = 0 THEN a
    ELSE (IF a % 2 = 1 \/ b % 2 = 1 THEN 1 ELSE 0) + 2 * BitOr(a \div 2, b \div 2)

RECURSIVE BitXor(_, _)
BitXor(a, b) ==
    IF a = 0 THEN b
    ELSE IF b = 0 THEN a
    ELSE (IF a % 2 # b % 2 THEN 1 ELSE 0) + 2 * BitXor(a \div 2, b \div 2)

\* value as u8
AsU8(v) == v % 256

\* u8::wrapping_add
WrappingAdd8(a, b) == (a + b) % 256

\* u16::wrapping_add
WrappingAdd16(a, b) == (a + b) % 65536

(***************************************************************************)
(* The opcode table.  OpsInserts lists the hash.insert calls of            *)
(* create_ops_info in source order; a HashMap insert with a key already    *)
(* present replaces the value, so the table maps a key to its last insert. *)
(***************************************************************************)
Op(opcode, instruction, cycle_count, size, addressing_mode) ==
    [opcode |-> opcode, instruction |-> instruction, cycle_count |-> cycle_count,
     size |-> size, addressing_mode |-> addressing_mode]

OpsInserts ==
    <<
       Op(0, "BRK", 7, 1, "Implicit"), Op(105, "ADC", 2, 2, "Immediate"),
       Op(101, "ADC", 3, 2, "ZeroPage"), Op(117, "ADC", 4, 2, "ZeroPageX"),
       Op(109, "ADC", 4, 3, "Absolute"), Op(125, "ADC", 4, 3, "AbsoluteX"),
       Op(121, "ADC", 4, 3, "AbsoluteY"), Op(97, "ADC", 6, 2, "IndirectX"),
       Op(113, "ADC", 5, 2, "IndirectY"), Op(41, "AND", 2, 2, "Immediate"),
       Op(37, "AND", 3, 2, "ZeroPage"), Op(53, "AND", 4, 2, "ZeroPageX"),
       Op(45, "AND", 4, 3, "Absolute"), Op(61, "AND", 4, 3, "AbsoluteX"),
       Op(57, "AND", 4, 3, "AbsoluteY"), Op(33, "AND", 6, 2, "IndirectX"),
       Op(49, "AND", 5, 2, "IndirectY"), Op(10, "ASL", 2, 1, "Accumulator"),
       Op(6, "ASL", 5, 2, "ZeroPage"), Op(22, "ASL", 6, 2, "ZeroPageX"),
       Op(14, "ASL", 6, 3, "Absolute"), Op(30, "ASL", 7, 3, "AbsoluteX"),
       Op(144, "BCC", 2, 2, "Relative"), Op(176, "BCS", 2, 2, "Relative"),
       Op(144, "BEQ", 2, 2, "Relative"), Op(36, "BIT", 2, 3, "ZeroPage"),
       Op(44, "BIT", 3, 4, "Absolute"), Op(48, "BMI", 2, 2, "Relative"),
       Op(208, "BNE", 2, 2, "Relative"), Op(16, "BPL", 2, 2, "Relative"),
       Op(0, "BRK", 7, 1, "Implicit"), Op(80, "BVC", 2, 2, "Relative"),
       Op(112, "BVS", 2, 2, "Relative"), Op(24, "CLC", 2, 1, "Implicit"),
       Op(216, "CLD", 2, 1, "Implicit"), Op(88, "CLI", 2, 1, "Implicit"),
       Op(184, "CLV", 2, 1, "Implicit"), Op(201, "CMP", 2, 2, "Immediate"),
       Op(197, "CMP", 3, 2, "ZeroPage"), Op(213, "CMP", 4, 2, "ZeroPageX"),
       Op(205, "CMP", 4, 3, "Absolute"), Op(221, "CMP", 4, 3, "AbsoluteX"),
       Op(217, "CMP", 4, 3, "AbsoluteY"), Op(193, "CMP", 6, 2, "IndirectX"),
       Op(209, "CMP", 5, 2, "IndirectY"), Op(224, "CPX", 2, 2, "Immediate"),
       Op(228, "CPX", 3, 2, "ZeroPage"), Op(236, "CPX", 4, 2, "Absolute"),
       Op(192, "CPY", 2, 2, "Immediate"), Op(196, "CPY", 3, 2, "ZeroPage"),
       Op(204, "CPY", 4, 3, "Immediate"), Op(198, "DEC", 5, 2, "ZeroPage"),
       Op(214, "DEC", 6, 2, "ZeroPageX"), Op(206, "DEC", 6, 3, "Absolute"),
       Op(222, "DEC", 7, 3, "AbsoluteX"), Op(202, "DEX", 2, 1, "Implicit"),
       Op(136, "DEY", 2, 1, "Implicit"), Op(73, "EOR", 2, 2, "Immediate"),
       Op(69, "EOR", 3, 2, "ZeroPage"), Op(85, "EOR", 4, 2, "ZeroPageX"),
       Op(77, "EOR", 4, 3, "Absolute"), Op(93, "EOR", 4, 3, "AbsoluteX"),
       Op(89, "EOR", 4, 3, "AbsoluteY"), Op(65, "EOR", 6, 2, "IndirectX"),
       Op(81, "EOR", 5, 2, "IndirectY"), Op(230, "INC", 5, 2, "ZeroPage"),
       Op(246, "INC", 6, 2, "ZeroPageX"), Op(238, "INC", 6, 3, "Absolute"),
       Op(254, "INC", 7, 3, "AbsoluteX"), Op(232, "INX", 2, 1, "Implicit"),
       Op(200, "INX", 2, 1, "Implicit"), Op(76, "JMP", 3, 3, "Absolute"),
       Op(76, "JMP", 3, 3, "Indirect"), Op(32, "JMP", 6, 3, "Absolute"),
       Op(169, "LDA", 2, 2, "Immediate"), Op(165, "LDA", 3, 2, "ZeroPage"),
       Op(181, "LDA", 4, 2, "ZeroPageX"), Op(173, "LDA", 4, 3, "Absolute"),
       Op(189, "LDA", 4, 3, "AbsoluteX"), Op(185, "LDA", 4, 3, "AbsoluteY"),
       Op(161, "LDA", 6, 2, "IndirectX"), Op(177, "LDA", 5, 2, "IndirectY"),
       Op(162, "LDX", 2, 2, "Immediate"), Op(166, "LDX", 3, 2, "ZeroPage"),
       Op(182, "LDX", 4, 2, "ZeroPageY"), Op(174, "LDX", 4, 3, "Absolute"),
       Op(190, "LDX", 4, 3, "AbsoluteY"), Op(160, "LDY", 2, 2, "Immediate"),
       Op(164, "LDY", 3, 2, "ZeroPage"), Op(180, "LDY", 4, 2, "ZeroPageX"),
       Op(172, "LDY", 4, 3, "Absolute"), Op(172, "LDY", 4, 3, "AbsoluteX"),
       Op(74, "LSR", 2, 1, "Accumulator"), Op(70, "LSR", 5, 2, "ZeroPage"),
       Op(86, "LSR", 6, 2, "ZeroPageX"), Op(78, "LSR", 6, 3, "Absolute"),
       Op(94, "LSR", 7, 3, "AbsoluteX"), Op(234, "NOP", 2, 1, "Implicit"),
       Op(9, "ORA", 2, 2, "Immediate"), Op(5, "ORA", 3, 2, "ZeroPage"),
       Op(21, "ORA", 4, 2, "ZeroPageX"), Op(21, "ORA", 4, 2, "ZeroPageX"),
       Op(21, "ORA", 4, 2, "ZeroPageX"), Op(13, "ORA", 4, 3, "Absolute"),
       Op(29, "ORA", 4, 3, "AbsoluteX"), Op(25, "ORA", 4, 3, "AbsoluteY"),
       Op(1, "ORA", 6, 2, "IndirectX"), Op(17, "ORA", 5, 2, "IndirectY"),
       Op(72, "PHA", 3, 1, "Implicit"), Op(8, "PHP", 3, 1, "Implicit"),
       Op(104, "PLA", 4, 1, "Implicit"), Op(40, "PLP", 4, 1, "Implicit"),
       Op(42, "ROL", 2, 1, "Accumulator"), Op(38, "ROL", 5, 2, "ZeroPage"),
       Op(54, "ROL", 6, 2, "ZeroPageX"), Op(46, "ROL", 6, 3, "Absolute"),
       Op(62, "ROL", 7, 3, "AbsoluteX"), Op(106, "ROR", 2, 1, "Accumulator"),
       Op(102, "ROR", 5, 2, "ZeroPage"), Op(118, "ROR", 6, 2, "ZeroPageX"),
       Op(110, "ROR", 6, 3, "Absolute"), Op(126, "ROR", 7, 3, "AbsoluteX"),
       Op(64, "RTI", 6, 1, "Implicit"), Op(96, "RTS", 6, 1, "Implicit"),
       Op(233, "SBC", 2, 2, "Immediate"), Op(229, "SBC", 3, 2, "ZeroPage"),
       Op(245, "SBC", 4, 2, "ZeroPageX"), Op(237, "SBC", 4, 3, "Absolute"),
       Op(253, "SBC", 4, 3, "AbsoluteX"), Op(249, "SBC", 4, 3, "AbsoluteY"),
       Op(225, "SBC", 6, 2, "IndirectX"), Op(241, "SBC", 5, 2, "IndirectY"),
       Op(56, "SEC", 2, 1, "Implicit"), Op(248, "SED", 2, 1, "Implicit"),
       Op(120, "STI", 2, 1, "Implicit"), Op(133, "STA", 3, 2, "ZeroPage"),
       Op(149, "STA", 4, 2, "Absolute"), Op(141, "STA", 4, 3, "AbsoluteX"),
       Op(153, "STA", 5, 3, "AbsoluteY"), Op(129, "STA", 6, 2, "IndirectX"),
       Op(145, "STA", 6, 2, "IndirectY"), Op(134, "STX", 3, 2, "ZeroPage"),
       Op(150, "STX", 4, 2, "ZeroPageY"), Op(142, "STX", 4, 3, "Absolute"),
       Op(132, "STY", 3, 2, "ZeroPage"), Op(148, "STY", 4, 2, "ZeroPageX"),
       Op(140, "STY", 4, 3, "Absolute"), Op(170, "TAX", 2, 1, "Implicit"),
       Op(168, "TAY", 2, 1, "Implicit"), Op(186, "TSX", 2, 1, "Implicit"),
       Op(138, "TXA", 2, 1, "Implicit"), Op(154, "TXS", 2, 1, "Implicit"),
       Op(152, "TYA", 2, 1, "Implicit")
    >>

OpsKeys == {OpsInserts[i].opcode : i \in 1..Len(OpsInserts)}

create_ops_info ==
    [k \in OpsKeys |->
        LET last_insert == CHOOSE i \in 1..Len(OpsInserts) :
                /\ OpsInserts[i].opcode = k
                /\ \A j \in 1..Len(OpsInserts) : OpsInserts[j].opcode = k => j <= i
        IN OpsInserts[last_insert]]

(***************************************************************************)
(* The state: the fields of struct CPU, the position of the process, and   *)
(* two records kept for stating properties.                                *)
(*                                                                         *)
(* memory holds the bytes that are not zero, as a function from their      *)
(* addresses; every other address below MemSize holds 0 (CPU::new zeroes   *)
(* the array).  mem_write keeps that form, so two equal arrays are equal   *)
(* functions.                                                              *)
(***************************************************************************)
VARIABLES acc_reg, pc, status, reg_x, reg_y, memory, mode, loaded, runs, entry, last,
          hash, inserts

vars == <<acc_reg, pc, status, reg_x, reg_y, memory, mode, loaded, runs, entry, last,
          hash, inserts>>

\* The map create_ops_info is building and the number of its hash.insert
\* calls executed so far.
ops == <<hash, inserts>>

\* The CPU struct as a value.
Self ==
    [acc_reg |-> acc_reg, pc |-> pc, status |-> status,
     reg_x |-> reg_x, reg_y |-> reg_y, memory |-> memory]

Store(c) ==
    /\ acc_reg' = c.acc_reg
    /\ pc' = c.pc
    /\ status' = c.status
    /\ reg_x' = c.reg_x
    /\ reg_y' = c.reg_y
    /\ memory' = c.memory

\* No run() entered, or another call of the host since run() returned.
NoEntry ==
    [api |-> "none", program_len |-> -1, acc_reg |-> 0, pc |-> 0, status |-> 0,
     reg_x |-> 0, reg_y |-> 0]

\* Neither reset() nor an instruction executed since the last other call of
\* the host.
NoLast ==
    [op |-> "none", opcode |-> -1, opcode_pc |-> 0, acc_reg |-> 0, status |-> 0,
     reg_x |-> 0, reg_y |-> 0, memory |-> << >>, arg |-> << >>]

\* Indexing the array: an address at or past its length panics.
InBounds(address) == address < MemSize

mem_read(c, address) ==
    IF address \in DOMAIN c.memory THEN c.memory[address] ELSE 0

mem_write(c, address, data) ==
    [c EXCEPT !.memory =
        IF data = 0
        THEN [a \in (DOMAIN c.memory) \ {address} |-> c.memory[a]]
        ELSE [a \in (DOMAIN c.memory) \cup {address} |->
                IF a = address THEN data ELSE c.memory[a]]]

\* mem_read_u16 with the two bytes in the other order.
mem_read_u16_big_endian(c, pos) ==
    LET hi == mem_read(c, pos)
        lo == mem_read(c, pos + 1)
    IN BitOr(hi * 256, lo)

mem_read_u16(c, pos) ==
    LET lo == mem_read(c, pos)
        hi == mem_read(c, pos + 1)
    IN BitOr(hi * 256, lo)

mem_write_u16(c, pos, data) ==
    LET hi == AsU8(data \div 256)
        lo == AsU8(BitAnd(data, 255))
    IN mem_write(mem_write(c, pos, lo), pos + 1, hi)

\* memory[0x8000..(0x8000 + program.len())].copy_from_slice(&program[..])
RECURSIVE copy_from_slice(_, _, _)
copy_from_slice(c, program, i) ==
    IF i > Len(program) THEN c
    ELSE copy_from_slice(mem_write(c, ProgramOrigin + i - 1, program[i]), program, i + 1)

\* The slice 0x8000..(0x8000 + len) must lie within the array.
load_in_bounds(program) == ProgramOrigin + Len(program) <= MemSize

load(c, program) ==
    mem_write_u16(copy_from_slice(c, program, 1), ResetVector, ProgramOrigin)

reset(c) ==
    [c EXCEPT !.pc = mem_read_u16(c, ResetVector),
              !.reg_x = 0, !.reg_y = 0, !.acc_reg = 0, !.status = 0]

\* The flag update, were the else-branches to clear with the complement of
\* the wrong bit (0b1111_1110 and 0b1011_1111).
update_negative_zero_flags_wrong_masks(st, result) ==
    LET z == IF result = 0 THEN BitOr(st, 2) ELSE BitAnd(st, 254)
    IN IF BitAnd(result, 128) # 0 THEN BitOr(z, 128) ELSE BitAnd(z, 191)

update_negative_zero_flags(st, result) ==
    LET z == IF result = 0 THEN BitOr(st, 2) ELSE BitAnd(st, 253)
    IN IF BitAnd(result, 128) # 0 THEN BitOr(z, 128) ELSE BitAnd(z, 127)

\* lda, tax and inx: defined by the CPU, called by no arm of run().
lda(c, value) ==
    [c EXCEPT !.acc_reg = value,
              !.status = update_negative_zero_flags(c.status, value)]

tax(c) ==
    [c EXCEPT !.reg_x = c.acc_reg,
              !.status = update_negative_zero_flags(c.status, c.acc_reg)]

inx(c) ==
    LET x == WrappingAdd8(c.reg_x, 1)
    IN [c EXCEPT !.reg_x = x, !.status = update_negative_zero_flags(c.status, x)]

\* The variants of AddressingMode, and those get_operand_address has an
\* arm for; every other variant reaches todo!().
AddressingModes ==
    {"Implicit", "Accumulator", "Immediate", "ZeroPage", "ZeroPageX", "ZeroPageY",
     "Relative", "Absolute", "AbsoluteX", "AbsoluteY", "Indirect", "IndirectX",
     "IndirectY", "IndexedDirect", "IndirectedIndex", "Noneaddressing"}

HandledModes ==
    {"Immediate", "ZeroPage", "ZeroPageX", "ZeroPageY", "Absolute", "AbsoluteX",
     "AbsoluteY", "Indirect", "IndirectX", "IndirectY"}

\* A u8 `+` panics on overflow when the build checks overflow (debug) and
\* wraps when it does not (release).
Builds == {"debug", "release"}

\* The zero-page pointer read of the three indirect arms.
deref_zero_page(c, base) ==
    LET lb == mem_read(c, base)
        hb == mem_read(c, WrappingAdd8(base, 1))
    IN BitOr(hb * 256, lb)

\* The zero-page arms, were the index added as a u16.
zero_page_indexed_u16_add(c, index) == mem_read(c, c.pc) + index

\* ZeroPageX and ZeroPageY: page_addr.wrapping_add(index) as u16
zero_page_indexed(c, index) == WrappingAdd8(mem_read(c, c.pc), index)

\* The address get_operand_address returns when it returns. Immediate is the
\* mode run() passes to adc.
get_operand_address(c, addressing_mode) ==
    CASE addressing_mode = "Immediate" -> c.pc
      [] addressing_mode = "ZeroPage" -> mem_read(c, c.pc)
      [] addressing_mode = "ZeroPageX" -> zero_page_indexed(c, c.reg_x)
      [] addressing_mode = "ZeroPageY" -> zero_page_indexed(c, c.reg_y)
      [] addressing_mode = "Absolute" -> mem_read_u16(c, c.pc)
      [] addressing_mode = "AbsoluteY" -> WrappingAdd16(mem_read_u16(c, c.pc), c.reg_y)
      [] addressing_mode = "AbsoluteX" -> WrappingAdd16(mem_read_u16(c, c.pc), c.reg_y)
      [] addressing_mode = "Indirect" -> deref_zero_page(c, mem_read(c, c.pc))
      [] addressing_mode = "IndirectX" ->
            deref_zero_page(c, AsU8(mem_read(c, c.pc) + c.reg_x))
      [] addressing_mode = "IndirectY" ->
            WrappingAdd16(deref_zero_page(c, AsU8(mem_read(c, c.pc) + c.reg_x)),
                          c.reg_y)

\* get_operand_address does not return: an arm of todo!(), a read past the
\* end of the array, or the u8 `+` of IndirectX and IndirectY overflowing in
\* a build that checks it.
get_operand_address_panics(c, addressing_mode, build) ==
    CASE addressing_mode \notin HandledModes -> TRUE
      [] addressing_mode = "Immediate" -> FALSE
      [] addressing_mode \in {"ZeroPage", "ZeroPageX", "ZeroPageY", "Indirect"} ->
            ~InBounds(c.pc)
      [] addressing_mode \in {"Absolute", "AbsoluteX", "AbsoluteY"} ->
            ~InBounds(c.pc) \/ ~InBounds(c.pc + 1)
      [] addressing_mode \in {"IndirectX", "IndirectY"} ->
            \/ ~InBounds(c.pc)
            \/ build = "debug" /\ mem_read(c, c.pc) + c.reg_x > 255

\* adc_carry testing the sum after its cast to u8.
adc_carry_of_u8(st, value) ==
    IF AsU8(value) > 255 THEN BitOr(BitAnd(st, 254), 1) ELSE st

\* The carry written by adc: set when the sum exceeds 255, otherwise left.
adc_carry(st, value) ==
    IF value > 255 THEN BitOr(BitAnd(st, 254), 1) ELSE st

\* adc_overflow without the mask that clears bit 6 first.
adc_overflow_sticky(st, mem_val, acc, value) ==
    LET overflow == BitAnd(BitAnd(BitXor(mem_val, AsU8(value)),
                                  BitXor(acc, AsU8(value))), 128)
    IN BitOr(st, overflow \div 2)

\* The overflow bit written by adc.
adc_overflow(st, mem_val, acc, value) ==
    LET overflow == BitAnd(BitAnd(BitXor(mem_val, AsU8(value)),
                                  BitXor(acc, AsU8(value))), 128)
    IN BitOr(BitAnd(st, 191), overflow \div 2)

\* adc without the carry added to the sum.
adc_without_carry_in(c, addressing_mode) ==
    LET addr == get_operand_address(c, addressing_mode)
        mem_val == mem_read(c, addr)
        value == WrappingAdd16(WrappingAdd16(0, mem_val), c.acc_reg)
        st1 == adc_carry(c.status, value)
        st2 == adc_overflow(st1, mem_val, c.acc_reg, value)
    IN [c EXCEPT !.acc_reg = AsU8(value),
                 !.status = update_negative_zero_flags(st2, AsU8(value))]

\* adc, were it to build the new status from a cleared byte.
adc_from_cleared_status(c, addressing_mode) ==
    LET addr == get_operand_address(c, addressing_mode)
        mem_val == mem_read(c, addr)
        carry_flag == BitAnd(c.status, 1)
        value == WrappingAdd16(WrappingAdd16(WrappingAdd16(0, mem_val), c.acc_reg),
                               carry_flag)
        st1 == adc_carry(0, value)
        st2 == adc_overflow(st1, mem_val, c.acc_reg, value)
    IN [c EXCEPT !.acc_reg = AsU8(value),
                 !.status = update_negative_zero_flags(st2, AsU8(value))]

adc(c, addressing_mode) ==
    LET addr == get_operand_address(c, addressing_mode)
        mem_val == mem_read(c, addr)
        carry_flag == BitAnd(c.status, 1)
        value == WrappingAdd16(WrappingAdd16(WrappingAdd16(0, mem_val), c.acc_reg),
                               carry_flag)
        st1 == adc_carry(c.status, value)
        st2 == adc_overflow(st1, mem_val, c.acc_reg, value)
    IN [c EXCEPT !.acc_reg = AsU8(value),
                 !.status = update_negative_zero_flags(st2, AsU8(value))]

(***************************************************************************)
(* The initial state: CPU::new().                                          *)
(***************************************************************************)
Init ==
    /\ acc_reg = 0
    /\ pc = 0
    /\ status = 0
    /\ reg_x = 0
    /\ reg_y = 0
    /\ memory = << >>
    /\ mode = "Halted"
    /\ loaded = FALSE
    /\ runs = 0
    /\ entry = NoEntry
    /\ last = NoLast
    /\ hash = << >>
    /\ inserts = 0

Programs == UNION {[1..n -> ProgBytes] : n \in 0..MaxProgLen}

\* Programs that end at 0x10000 and one byte past it.
OversizePrograms == {[i \in 1..n |-> 0] : n \in {32768, 32769}}

Panic ==
    /\ mode' = "Panicked"
    /\ UNCHANGED <<acc_reg, pc, status, reg_x, reg_y, memory, loaded, runs, entry, last>>

\* What the CPU held when the host called reset() or load().
Called(c, op) ==
    [op |-> op, opcode |-> -1, opcode_pc |-> c.pc, acc_reg |-> c.acc_reg,
     status |-> c.status, reg_x |-> c.reg_x, reg_y |-> c.reg_y, memory |-> c.memory,
     arg |-> << >>]

\* A call of the host with its arguments (and, for a read, its result).
CalledWith(op, arg) == [NoLast EXCEPT !.op = op, !.arg = arg]

\* A call of the host that panics.
PanicIn(op, arg) ==
    /\ mode' = "Panicked"
    /\ last' = CalledWith(op, arg)
    /\ UNCHANGED <<acc_reg, pc, status, reg_x, reg_y, memory, loaded, runs, entry>>

\* What the CPU held when run() was entered, by which call, and the length
\* of the program load_and_run was given (-1 for a plain run()).
Snapshot(c, api, program_len) ==
    [api |-> api, program_len |-> program_len, acc_reg |-> c.acc_reg, pc |-> c.pc,
     status |-> c.status, reg_x |-> c.reg_x, reg_y |-> c.reg_y]

(***************************************************************************)
(* The calls of the host.  The core is synchronous: the host calls only    *)
(* when no run() is executing.                                             *)
(***************************************************************************)
Load ==
    /\ mode = "Halted"
    /\ UNCHANGED ops
    /\ ~loaded
    /\ \E program \in Programs \cup OversizePrograms :
        IF load_in_bounds(program)
        THEN /\ Store(load(Self, program))
             /\ loaded' = TRUE
             /\ entry' = NoEntry
             /\ last' = [Called(Self, "load") EXCEPT !.arg = program]
             /\ UNCHANGED <<mode, runs>>
        ELSE PanicIn("load", program)

Reset ==
    /\ mode = "Halted"
    /\ UNCHANGED ops
    /\ Store(reset(Self))
    /\ entry' = NoEntry
    /\ last' = Called(Self, "reset")
    /\ UNCHANGED <<mode, loaded, runs>>

\* cpu.acc_reg = v
SetAcc ==
    /\ mode = "Halted"
    /\ UNCHANGED ops
    /\ \E v \in AccVals : acc_reg' = v
    /\ entry' = NoEntry /\ last' = NoLast
    /\ UNCHANGED <<pc, status, reg_x, reg_y, memory, mode, loaded, runs>>

\* cpu.reg_x = v
SetX ==
    /\ mode = "Halted"
    /\ UNCHANGED ops
    /\ \E v \in XVals : reg_x' = v
    /\ entry' = NoEntry /\ last' = NoLast
    /\ UNCHANGED <<acc_reg, pc, status, reg_y, memory, mode, loaded, runs>>

\* cpu.reg_y = v
SetY ==
    /\ mode = "Halted"
    /\ UNCHANGED ops
    /\ \E v \in YVals : reg_y' = v
    /\ entry' = NoEntry /\ last' = NoLast
    /\ UNCHANGED <<acc_reg, pc, status, reg_x, memory, mode, loaded, runs>>

\* cpu.pc = cpu.mem_read_u16(0xfffc)
SetPc ==
    /\ mode = "Halted"
    /\ UNCHANGED ops
    /\ pc' = mem_read_u16(Self, ResetVector)
    /\ entry' = NoEntry /\ last' = NoLast
    /\ UNCHANGED <<acc_reg, status, reg_x, reg_y, memory, mode, loaded, runs>>

\* cpu.mem_write(address, data)
MemWrite ==
    /\ mode = "Halted"
    /\ UNCHANGED ops
    /\ \E address \in PokeAddrs, data \in PokeVals :
        IF InBounds(address)
        THEN /\ Store(mem_write(Self, address, data))
             /\ entry' = NoEntry
             /\ last' = CalledWith("mem_write", <<address, data>>)
             /\ UNCHANGED <<mode, loaded, runs>>
        ELSE PanicIn("mem_write", <<address, data>>)

\* cpu.mem_read(address)
MemRead ==
    /\ mode = "Halted"
    /\ UNCHANGED ops
    /\ \E address \in PokeAddrs :
        IF InBounds(address)
        THEN /\ entry' = NoEntry
             /\ last' = CalledWith("mem_read", <<address, mem_read(Self, address)>>)
             /\ UNCHANGED <<acc_reg, pc, status, reg_x, reg_y, memory, mode, loaded, runs>>
        ELSE PanicIn("mem_read", <<address>>)

\* cpu.mem_read_u16(pos): the second byte is read at pos + 1.
MemReadU16 ==
    /\ mode = "Halted"
    /\ UNCHANGED ops
    /\ \E pos \in WordAddrs :
        IF InBounds(pos) /\ InBounds(pos + 1)
        THEN /\ entry' = NoEntry
             /\ last' = CalledWith("mem_read_u16", <<pos, mem_read_u16(Self, pos)>>)
             /\ UNCHANGED <<acc_reg, pc, status, reg_x, reg_y, memory, mode, loaded, runs>>
        ELSE PanicIn("mem_read_u16", <<pos>>)

\* cpu.mem_write_u16(pos, data): the low byte is written at pos before the
\* write at pos + 1 is attempted.
MemWriteU16 ==
    /\ mode = "Halted"
    /\ UNCHANGED ops
    /\ \E pos \in WordAddrs, data \in WordVals :
        IF InBounds(pos) /\ InBounds(pos + 1)
        THEN /\ Store(mem_write_u16(Self, pos, data))
             /\ entry' = NoEntry
             /\ last' = CalledWith("mem_write_u16", <<pos, data>>)
             /\ UNCHANGED <<mode, loaded, runs>>
        ELSE IF InBounds(pos)
        THEN /\ Store(mem_write(Self, pos, AsU8(BitAnd(data, 255))))
             /\ mode' = "Panicked"
             /\ last' = CalledWith("mem_write_u16", <<pos, data>>)
             /\ UNCHANGED <<loaded, runs, entry>>
        ELSE PanicIn("mem_write_u16", <<pos, data>>)

\* cpu.run(): the loop is entered; RunStep is one iteration of it.
Run ==
    /\ mode = "Halted"
    /\ UNCHANGED ops
    /\ runs < MaxRuns
    /\ runs' = runs + 1
    /\ mode' = "Running"
    /\ entry' = Snapshot(Self, "run", -1)
    /\ last' = NoLast
    /\ UNCHANGED <<acc_reg, pc, status, reg_x, reg_y, memory, loaded>>

\* cpu.load_and_run(program): load, reset, and the loop is entered.
LoadAndRun ==
    /\ mode = "Halted"
    /\ UNCHANGED ops
    /\ ~loaded
    /\ runs < MaxRuns
    /\ \E program \in Programs \cup OversizePrograms :
        IF load_in_bounds(program)
        THEN LET c == reset(load(Self, program))
             IN /\ Store(c)
                /\ loaded' = TRUE
                /\ runs' = runs + 1
                /\ mode' = "Running"
                /\ entry' = Snapshot(c, "load_and_run", Len(program))
                /\ last' = NoLast
        ELSE PanicIn("load_and_run", program)

(***************************************************************************)
(* One iteration of the loop of run().                                     *)
(***************************************************************************)
Executed(c, opcode) ==
    [op |-> "step", opcode |-> opcode, opcode_pc |-> c.pc, acc_reg |-> c.acc_reg,
     status |-> c.status, reg_x |-> c.reg_x, reg_y |-> c.reg_y, memory |-> c.memory,
     arg |-> << >>]

\* 0x00 => self.reset()
RunBrk(c) ==
    /\ Store(reset(c))
    /\ UNCHANGED mode

\* The 0x69 arm, were it to add the whole size after the fetch has already
\* advanced pc by one.
RunAdc_full_size(c) ==
    IF InBounds(get_operand_address(c, "Immediate")) /\ OpADC \in DOMAIN create_ops_info
    THEN LET d == adc(c, "Immediate")
         IN /\ Store([d EXCEPT !.pc = d.pc + create_ops_info[OpADC].size])
            /\ UNCHANGED mode
    ELSE /\ mode' = "Panicked"
         /\ UNCHANGED <<acc_reg, pc, status, reg_x, reg_y, memory>>

\* 0x69 => adc(Immediate); pc += size - 1
RunAdc(c) ==
    IF InBounds(get_operand_address(c, "Immediate")) /\ OpADC \in DOMAIN create_ops_info
    THEN LET d == adc(c, "Immediate")
         IN /\ Store([d EXCEPT !.pc = d.pc + create_ops_info[OpADC].size - 1])
            /\ UNCHANGED mode
    ELSE /\ mode' = "Panicked"
         /\ UNCHANGED <<acc_reg, pc, status, reg_x, reg_y, memory>>

\* _ => break
RunBreak(c) ==
    /\ Store(c)
    /\ mode' = "Halted"

RunStep ==
    /\ mode = "Running"
    /\ UNCHANGED ops
    /\ IF InBounds(pc)
       THEN LET opcode == mem_read(Self, pc)
                c == [Self EXCEPT !.pc = pc + 1]
            IN /\ last' = Executed(Self, opcode)
               /\ UNCHANGED <<entry, loaded, runs>>
               /\ CASE opcode = OpBRK -> RunBrk(c)
                    [] opcode = OpADC -> RunAdc(c)
                    [] OTHER -> RunBreak(c)
       ELSE Panic

Next ==
    \/ Load
    \/ Reset
    \/ SetAcc
    \/ SetX
    \/ SetY
    \/ SetPc
    \/ MemWrite
    \/ Run
    \/ LoadAndRun
    \/ RunStep

Spec == Init /\ [][Next]_vars

(***************************************************************************)
(* The memory bus alone: a host that loads a program and reads and writes  *)
(* the bus, and never enters run().                                        *)
(***************************************************************************)
BusNext ==
    \/ Load
    \/ MemWrite
    \/ MemRead
    \/ MemReadU16
    \/ MemWriteU16

SpecBus == Init /\ [][BusNext]_vars

(***************************************************************************)
(* update_negative_zero_flags alone: a CPU holding any status byte, and    *)
(* the function applied to any result byte.                                *)
(***************************************************************************)
InitFlags ==
    /\ acc_reg = 0
    /\ pc = 0
    /\ status \in Byte
    /\ reg_x = 0
    /\ reg_y = 0
    /\ memory = << >>
    /\ mode = "Halted"
    /\ loaded = FALSE
    /\ runs = 0
    /\ entry = NoEntry
    /\ last = NoLast
    /\ hash = << >>
    /\ inserts = 0

UpdateNegativeZeroFlags ==
    /\ \E result \in Byte :
        /\ status' = update_negative_zero_flags(status, result)
        /\ last' = [Called(Self, "update_negative_zero_flags") EXCEPT !.arg = <<result>>]
    /\ UNCHANGED <<acc_reg, pc, reg_x, reg_y, memory, mode, loaded, runs, entry>>
    /\ UNCHANGED ops

SpecFlags == InitFlags /\ [][UpdateNegativeZeroFlags]_vars

(***************************************************************************)
(* The addressing unit alone: a CPU holding an operand at pc, and          *)
(* get_operand_address and adc called with any addressing mode.            *)
(***************************************************************************)
\* Two memory images. In the first the operand bytes at 0x0010 are FF 01:
\* the zero-page operand 0xFF, the absolute operand 0x01FF. In the second
\* they are 20 03.
AddrMemories ==
    { (0 :> 52 @@ 1 :> 18 @@ 16 :> 255 @@ 17 :> 1 @@ 255 :> 120 @@ 256 :> 154
         @@ 511 :> 86),
      (16 :> 32 @@ 17 :> 3 @@ 32 :> 7 @@ 33 :> 128 @@ 34 :> 9 @@ 800 :> 5) }

AddrPcs == {16, 65534}
AddrAcc == {80}
AddrStatus == {60}
AddrX == {0, 1}
AddrY == {2}

InitAddr ==
    /\ acc_reg \in AddrAcc
    /\ pc \in AddrPcs
    /\ status \in AddrStatus
    /\ reg_x \in AddrX
    /\ reg_y \in AddrY
    /\ memory \in AddrMemories
    /\ mode = "Halted"
    /\ loaded = FALSE
    /\ runs = 0
    /\ entry = NoEntry
    /\ last = NoLast
    /\ hash = << >>
    /\ inserts = 0

\* get_operand_address, were it to step pc over the operand it reads.
GetOperandAddress_advancing_pc ==
    /\ mode = "Halted"
    /\ UNCHANGED ops
    /\ \E addressing_mode \in AddressingModes, build \in Builds :
        IF get_operand_address_panics(Self, addressing_mode, build)
        THEN PanicIn("get_operand_address", <<addressing_mode>>)
        ELSE /\ last' = [Called(Self, "get_operand_address") EXCEPT
                            !.arg = <<addressing_mode,
                                      get_operand_address(Self, addressing_mode)>>]
             /\ pc' = WrappingAdd16(pc, 1)
             /\ UNCHANGED <<acc_reg, status, reg_x, reg_y, memory, mode, loaded,
                            runs, entry>>

\* self.get_operand_address(mode): reads self, assigns nothing.
GetOperandAddress ==
    /\ mode = "Halted"
    /\ UNCHANGED ops
    /\ \E addressing_mode \in AddressingModes, build \in Builds :
        IF get_operand_address_panics(Self, addressing_mode, build)
        THEN PanicIn("get_operand_address", <<addressing_mode>>)
        ELSE /\ last' = [Called(Self, "get_operand_address") EXCEPT
                            !.arg = <<addressing_mode,
                                      get_operand_address(Self, addressing_mode)>>]
             /\ UNCHANGED <<acc_reg, pc, status, reg_x, reg_y, memory, mode, loaded,
                            runs, entry>>

\* cpu.adc(mode)
Adc ==
    /\ mode = "Halted"
    /\ UNCHANGED ops
    /\ \E addressing_mode \in AddressingModes, build \in Builds :
        IF \/ get_operand_address_panics(Self, addressing_mode, build)
           \/ ~InBounds(get_operand_address(Self, addressing_mode))
        THEN PanicIn("adc", <<addressing_mode>>)
        ELSE /\ Store(adc(Self, addressing_mode))
             /\ last' = [Called(Self, "adc") EXCEPT !.arg = <<addressing_mode>>]
             /\ UNCHANGED <<mode, loaded, runs, entry>>

AddrNext ==
    \/ GetOperandAddress
    \/ Adc

SpecAddr == InitAddr /\ [][AddrNext]_vars

(***************************************************************************)
(* create_ops_info() alone: its hash.insert calls, one at a time, in the   *)
(* order of the source.                                                    *)
(***************************************************************************)
HashInsert ==
    /\ inserts < Len(OpsInserts)
    /\ LET op == OpsInserts[inserts + 1]
       IN hash' = [k \in DOMAIN hash \cup {op.opcode} |->
                        IF k = op.opcode THEN op ELSE hash[k]]
    /\ inserts' = inserts + 1
    /\ UNCHANGED <<acc_reg, pc, status, reg_x, reg_y, memory, mode, loaded, runs,
                   entry, last>>

SpecOps == Init /\ [][HashInsert]_vars

\* The map the last insert leaves is the map run() looks opcodes up in.
OpsReturned == inserts = Len(OpsInserts) => hash = create_ops_info

TypeOK ==
    /\ acc_reg \in Byte /\ reg_x \in Byte /\ reg_y \in Byte /\ status \in Byte
    /\ pc \in 0..65535
    /\ DOMAIN memory \subseteq 0..(MemSize - 1)
    /\ \A a \in DOMAIN memory : memory[a] \in 1..255
    /\ mode \in {"Halted", "Running", "Panicked"}

(***************************************************************************)
(* Vocabulary of the properties.                                           *)
(***************************************************************************)
\* A bit of the status byte, layout N V _ B D I Z C.
FlagC(st) == (st % 2) = 1
FlagZ(st) == ((st \div 2) % 2) = 1
FlagV(st) == ((st \div 64) % 2) = 1
FlagN(st) == ((st \div 128) % 2) = 1
Bit7(v) == ((v \div 128) % 2) = 1

\* The byte the array holds at an address.
ByteAt(mem, address) == IF address \in DOMAIN mem THEN mem[address] ELSE 0

\* The last iteration of the loop executed an instruction with this opcode.
JustExecuted(opcode) ==
    /\ last.op = "step"
    /\ last.opcode = opcode
    /\ mode # "Panicked"

\* The operands of the ADC immediate just executed.
AdcM == ByteAt(last.memory, last.opcode_pc + 1)
AdcCarryIn == IF FlagC(last.status) THEN 1 ELSE 0
AdcSum == last.acc_reg + AdcM + AdcCarryIn

\* run() has returned to the host, which has not called since.
RunReturned(api) ==
    /\ mode = "Halted"
    /\ entry.api = api

\* run() was entered at 0x8000 with the registers as reset() leaves them,
\* but for the accumulator and X, which the host may have set since.
EnteredAfterReset ==
    /\ entry.pc = ProgramOrigin
    /\ entry.status = 0
    /\ entry.reg_y = 0

(***************************************************************************)
(* C1.  When run() fetches opcode 0x00 (BRK), the executor goes from       *)
(* Running to Halted: run() returns and fetches no further instruction.    *)
(* Stated of the state right after the iteration that fetched the BRK.     *)
(* The code calls reset() on 0x00 and stays in the loop.                   *)
(***************************************************************************)
C1_BrkHalts == (loaded /\ JustExecuted(OpBRK)) => mode = "Halted"

(***************************************************************************)
(* C2.  When run() fetches an opcode byte with no descriptor in the opcode *)
(* table, run() halts with PC equal to the address of that byte, and A, X, *)
(* Y, P and memory unchanged by the failed fetch.  The code has added 1 to *)
(* pc before it matches on the opcode.                                     *)
(***************************************************************************)
C2_IllegalOpcodeKeepsPc ==
    (last.op = "step" /\ last.opcode \notin DOMAIN create_ops_info /\ mode # "Panicked") =>
        /\ mode = "Halted"
        /\ pc = last.opcode_pc
        /\ acc_reg = last.acc_reg
        /\ reg_x = last.reg_x
        /\ reg_y = last.reg_y
        /\ status = last.status
        /\ memory = last.memory

(***************************************************************************)
(* C3.  After ADC immediate (0x69) executes, the carry flag (P bit 0)      *)
(* equals (A + M + C > 0xFF): set when the sum exceeds 255 and cleared     *)
(* otherwise, also when the carry was 1 before.  The code sets the carry   *)
(* and never clears it.                                                    *)
(***************************************************************************)
C3_AdcCarry == JustExecuted(OpADC) => (FlagC(status) <=> AdcSum > 255)

(***************************************************************************)
(* C4.  After ADC immediate executes, the overflow flag V (P bit 6) equals *)
(* ((A ^ sum) & (M ^ sum) & 0x80) != 0, where sum = A + M + C and A is the *)
(* accumulator before the instruction; V is set and cleared by this rule.  *)
(***************************************************************************)
C4_AdcOverflow ==
    JustExecuted(OpADC) =>
        (FlagV(status) <=>
            BitAnd(BitAnd(BitXor(last.acc_reg, AdcSum), BitXor(AdcM, AdcSum)), 128) # 0)

\* An ADC that found V set and cleared it, after an ADC that set it.
C4_Witness ==
    /\ JustExecuted(OpADC)
    /\ FlagV(last.status)
    /\ ~FlagV(status)
    /\ AdcCarryIn = 0

(***************************************************************************)
(* C5.  After ADC immediate executes, A = (A_old + M + C) mod 256, Z is    *)
(* set iff the new A is 0, and N equals bit 7 of the new A.                *)
(***************************************************************************)
C5_AdcResult ==
    JustExecuted(OpADC) =>
        /\ acc_reg = AdcSum % 256
        /\ FlagZ(status) <=> acc_reg = 0
        /\ FlagN(status) <=> Bit7(acc_reg)

\* An ADC with carry in whose sum wrapped past 255.
C5_Witness ==
    /\ JustExecuted(OpADC)
    /\ AdcCarryIn = 1
    /\ AdcSum > 255
    /\ acc_reg = AdcSum - 256

(***************************************************************************)
(* C6.  Executing ADC #0x50 (program [0x69, 0x50, 0x00] at 0x8000) with    *)
(* A = 0xD0 and C = 0 leaves A = 0x20, C = 1 and V = 1.                    *)
(***************************************************************************)
C6_Case ==
    /\ JustExecuted(OpADC)
    /\ last.opcode_pc = ProgramOrigin
    /\ ByteAt(last.memory, ProgramOrigin) = 105
    /\ ByteAt(last.memory, ProgramOrigin + 1) = 80
    /\ ByteAt(last.memory, ProgramOrigin + 2) = 0
    /\ last.acc_reg = 208
    /\ ~FlagC(last.status)

\* C6 as the specification states it: V = 1.
C6_AdcD0Plus50_Original ==
    C6_Case => (acc_reg = 32 /\ FlagC(status) /\ FlagV(status))

\* C6 amended: the state right after that ADC has A = 0x20, C = 1 and V = 0.
C6_AdcD0Plus50 ==
    C6_Case => (acc_reg = 32 /\ FlagC(status) /\ ~FlagV(status))

C6_Witness == C6_Case /\ acc_reg = 32

(***************************************************************************)
(* C7.  For every byte v, load_and_run of [0xA9, v, 0x00] (LDA immediate,  *)
(* then BRK) ends with A = v, Z set iff v = 0, and N equal to bit 7 of v.  *)
(* run() has no arm for 0xA9: it returns on it with A as reset() left it.  *)
(***************************************************************************)
C7_LdaImmediate ==
    (/\ RunReturned("load_and_run")
     /\ ByteAt(memory, ProgramOrigin) = 169
     /\ ByteAt(memory, ProgramOrigin + 2) = 0) =>
        LET v == ByteAt(memory, ProgramOrigin + 1)
        IN /\ acc_reg = v
           /\ FlagZ(status) <=> v = 0
           /\ FlagN(status) <=> Bit7(v)

(***************************************************************************)
(* C8.  For every accumulator value a set after reset(), run() on the      *)
(* program [0xAA, 0x00] (TAX, then BRK) ends with X = a, Z set iff a = 0,  *)
(* and N equal to bit 7 of a.  run() has no arm for 0xAA.                  *)
(***************************************************************************)
C8_Tax ==
    (/\ RunReturned("run")
     /\ EnteredAfterReset
     /\ entry.reg_x = 0
     /\ ByteAt(memory, ProgramOrigin) = 170
     /\ ByteAt(memory, ProgramOrigin + 1) = 0) =>
        /\ reg_x = entry.acc_reg
        /\ FlagZ(status) <=> entry.acc_reg = 0
        /\ FlagN(status) <=> Bit7(entry.acc_reg)

(***************************************************************************)
(* C9.  For every X value x set after reset(), each INX (0xE8) executed by *)
(* run() sets X to (x + 1) mod 256 and sets Z/N from the result: X = 0xFF  *)
(* with program [0xE8, 0x00] ends with X = 0x00, Z = 1, N = 0.  run() has  *)
(* no arm for 0xE8.                                                        *)
(***************************************************************************)
C9_Inx ==
    (/\ RunReturned("run")
     /\ EnteredAfterReset
     /\ entry.acc_reg = 0
     /\ ByteAt(memory, ProgramOrigin) = 232
     /\ ByteAt(memory, ProgramOrigin + 1) = 0) =>
        /\ reg_x = (entry.reg_x + 1) % 256
        /\ FlagZ(status) <=> reg_x = 0
        /\ FlagN(status) <=> Bit7(reg_x)

(***************************************************************************)
(* C10.  reset() sets PC to the little-endian 16-bit value stored at       *)
(* 0xFFFC/0xFFFD, sets A, X and Y to 0, and leaves every memory byte       *)
(* unchanged.  Stated of the state right after reset(), called by the host *)
(* or by run() on opcode 0x00.                                             *)
(***************************************************************************)
ResetJustCalled ==
    \/ last.op = "reset"
    \/ JustExecuted(OpBRK)

C10_Reset ==
    ResetJustCalled =>
        /\ pc = ByteAt(last.memory, 65532) + 256 * ByteAt(last.memory, 65533)
        /\ acc_reg = 0
        /\ reg_x = 0
        /\ reg_y = 0
        /\ memory = last.memory

\* A reset() of a CPU whose registers were not zero and whose vector has
\* both bytes set.
C10_Witness ==
    /\ last.op = "reset"
    /\ last.acc_reg # 0 /\ last.reg_x # 0 /\ last.reg_y # 0
    /\ pc = 32769
    /\ last.opcode_pc # pc

(***************************************************************************)
(* C11.  In every state reached by reset() followed by any sequence of     *)
(* executed instructions, bit 5 of the status register P is 1, reset()     *)
(* itself leaving P = 0b0010_0100.  Stated of the state right after        *)
(* reset(), called by the host or by run() on opcode 0x00.  The code       *)
(* assigns status = 0.                                                     *)
(***************************************************************************)
FlagBit5(st) == ((st \div 32) % 2) = 1

C11_Bit5AfterReset == ResetJustCalled => (FlagBit5(status) /\ status = 36)

(***************************************************************************)
(* C12.  Memory is 65,536 bytes and memory access never fails: for every   *)
(* 16-bit address a in 0x0000..0xFFFF (0xFFFF included), read(a) returns a *)
(* byte and write(a, v) stores v, after which read(a) = v.  Stated of the  *)
(* state right after the host's mem_read or mem_write.  The array has      *)
(* 0xffff elements, so index 0xFFFF is out of bounds.                      *)
(***************************************************************************)
C12_MemoryAccessNeverFails ==
    /\ (last.op = "mem_write" /\ last.arg[1] \in 0..65535) =>
            (mode # "Panicked" /\ ByteAt(memory, last.arg[1]) = last.arg[2])
    /\ (last.op = "mem_read" /\ last.arg[1] \in 0..65535) =>
            (mode # "Panicked" /\ last.arg[2] \in Byte)

(***************************************************************************)
(* C13.  For every program of length n with 0x8000 + n <= 0x10000, after   *)
(* load(program): memory[0x8000 + i] = program[i] for every i < n,         *)
(* read16(0xFFFC) = 0x8000, and every memory byte outside the program      *)
(* range and the reset vector is unchanged.  A program of 0x8000 bytes     *)
(* ends at 0x10000, past the 0xffff elements of the array.                 *)
(***************************************************************************)
LoadJustCalled == last.op = "load"

C13_Load ==
    (LoadJustCalled /\ ProgramOrigin + Len(last.arg) <= 65536) =>
        /\ mode # "Panicked"
        /\ \A i \in 1..Len(last.arg) : ByteAt(memory, ProgramOrigin + i - 1) = last.arg[i]
        /\ ByteAt(memory, 65532) + 256 * ByteAt(memory, 65533) = 32768
        /\ \A a \in (DOMAIN memory) \cup (DOMAIN last.memory) :
               (a \notin ProgramOrigin..(ProgramOrigin + Len(last.arg) - 1) /\ a \notin {65532, 65533})
                   => ByteAt(memory, a) = ByteAt(last.memory, a)

(***************************************************************************)
(* C14.  load(program) with 0x8000 + len(program) > 0x10000 is refused: it *)
(* reports an OutOfBoundsProgramLoad error to the caller (no abort         *)
(* crossing the core boundary) and leaves memory and registers unchanged.  *)
(* The code has no check: the slice expression panics.                     *)
(***************************************************************************)
C14_LoadRefused ==
    (LoadJustCalled /\ ProgramOrigin + Len(last.arg) > 65536) =>
        /\ mode = "Halted"
        /\ ~loaded

(***************************************************************************)
(* C15.  load_and_run with an empty program is rejected as                 *)
(* InvalidConfiguration: it returns without executing any instruction.     *)
(* The code loads nothing, resets and enters run() at 0x8000.              *)
(***************************************************************************)
C15_EmptyProgramRejected ==
    (entry.api = "load_and_run" /\ entry.program_len = 0) =>
        (mode # "Panicked" /\ last.op # "step")

(***************************************************************************)
(* C16.  For every address p in 0x0000..0xFFFE and every 16-bit value v:   *)
(* read16(p) = read(p) | (read(p+1) << 8), write16(p, v) stores the low    *)
(* byte at p and the high byte at p+1, and write16(p, v) followed by       *)
(* read16(p) returns v.  Stated of the state right after the host's        *)
(* mem_read_u16 or mem_write_u16.  At p = 0xFFFE the second byte is at     *)
(* index 0xFFFF, past the 0xffff elements of the array.                    *)
(***************************************************************************)
Read16(mem, p) == ByteAt(mem, p) + 256 * ByteAt(mem, p + 1)

C16_LittleEndian16 ==
    /\ (last.op = "mem_read_u16" /\ last.arg[1] \in 0..65534) =>
            (mode # "Panicked" /\ last.arg[2] = Read16(memory, last.arg[1]))
    /\ (last.op = "mem_write_u16" /\ last.arg[1] \in 0..65534) =>
            /\ mode # "Panicked"
            /\ ByteAt(memory, last.arg[1]) = last.arg[2] % 256
            /\ ByteAt(memory, last.arg[1] + 1) = last.arg[2] \div 256
            /\ Read16(memory, last.arg[1]) = last.arg[2]

(***************************************************************************)
(* C17.  After run() executes a non-control instruction fetched at         *)
(* opcode_pc, PC = opcode_pc + bytes, bytes being the size in the opcode's *)
(* table descriptor.  An iteration of the loop executes the instruction    *)
(* when an arm of the match runs its body and the loop goes on; the one    *)
(* non-control opcode with such an arm is 0x69.                            *)
(***************************************************************************)
ControlInstructions ==
    {"BRK", "JMP", "JSR", "RTS", "RTI",
     "BCC", "BCS", "BEQ", "BMI", "BNE", "BPL", "BVC", "BVS"}

ExecutedNonControl ==
    /\ last.op = "step"
    /\ mode = "Running"
    /\ last.opcode \in DOMAIN create_ops_info
    /\ create_ops_info[last.opcode].instruction \notin ControlInstructions

C17_PcAdvance ==
    ExecutedNonControl => pc = last.opcode_pc + create_ops_info[last.opcode].size

C17_Witness ==
    /\ ExecutedNonControl
    /\ last.opcode = OpADC
    /\ pc = last.opcode_pc + 2

(***************************************************************************)
(* C18.  While create_ops_info builds the table no opcode byte is inserted *)
(* more than once: every insert uses a key not yet present, so the number  *)
(* of entries equals the number of inserts executed.                       *)
(***************************************************************************)
C18_NoDuplicateKeys == Cardinality(DOMAIN hash) = inserts

(***************************************************************************)
(* C19.  The table create_ops_info returns has a descriptor for each of    *)
(* the 151 legal 6502 opcode bytes and for no other byte.                  *)
(***************************************************************************)
\* The opcode bytes of the documented 6502 instruction set.
LegalOpcodes ==
    {0, 1, 5, 6, 8, 9, 10, 13, 14, 16, 17, 21, 22, 24, 25, 29,
     30, 32, 33, 36, 37, 38, 40, 41, 42, 44, 45, 46, 48, 49, 53, 54,
     56, 57, 61, 62, 64, 65, 69, 70, 72, 73, 74, 76, 77, 78, 80, 81,
     85, 86, 88, 89, 93, 94, 96, 97, 101, 102, 104, 105, 106, 108, 109, 110,
     112, 113, 117, 118, 120, 121, 125, 126, 129, 132, 133, 134, 136, 138, 140, 141,
     142, 144, 145, 148, 149, 150, 152, 153, 154, 157, 160, 161, 162, 164, 165, 166,
     168, 169, 170, 172, 173, 174, 176, 177, 180, 181, 182, 184, 185, 186, 188, 189,
     190, 192, 193, 196, 197, 198, 200, 201, 202, 204, 205, 206, 208, 209, 213, 214,
     216, 217, 221, 222, 224, 225, 228, 229, 230, 232, 233, 234, 236, 237, 238, 240,
     241, 245, 246, 248, 249, 253, 254}

C19_AllLegalOpcodes ==
    inserts = Len(OpsInserts) =>
        (DOMAIN hash = LegalOpcodes /\ Cardinality(DOMAIN hash) = 151)

(***************************************************************************)
(* C20.  For every byte v and every prior status P,                        *)
(* update_negative_zero_flags(v) leaves Z (bit 1) = (v = 0) and N (bit 7)  *)
(* = bit 7 of v, and leaves the other six status bits as they were in P.   *)
(***************************************************************************)
FlagsJustUpdated == last.op = "update_negative_zero_flags"

\* Bits 0, 2, 3, 4, 5 and 6 of a status byte.
OtherSixBits(st) == <<st % 2, (st \div 4) % 32>>

C20_SetZN ==
    FlagsJustUpdated =>
        /\ FlagZ(status) <=> (last.arg[1] = 0)
        /\ FlagN(status) <=> Bit7(last.arg[1])
        /\ OtherSixBits(status) = OtherSixBits(last.status)

C20_Witness ==
    /\ FlagsJustUpdated
    /\ last.status = 255
    /\ last.arg[1] = 1
    /\ status = 125

(***************************************************************************)
(* Vocabulary of the addressing properties: the call of                    *)
(* get_operand_address just made, the operand it found at pc, and the      *)
(* registers and memory it was called with.                                *)
(***************************************************************************)
AddrCalled(addressing_mode) ==
    /\ last.op = "get_operand_address"
    /\ last.arg[1] = addressing_mode

AddrReturned(addressing_mode) ==
    /\ AddrCalled(addressing_mode)
    /\ mode # "Panicked"

AddrResult == last.arg[2]
OperandByte == ByteAt(last.memory, last.opcode_pc)
OperandWord == Read16(last.memory, last.opcode_pc)

\* The pointer read that does not carry into the high byte of the pointer.
Read16Bug(mem, p) ==
    ByteAt(mem, p) + 256 * ByteAt(mem, IF p % 256 = 255 THEN p - 255 ELSE p + 1)

\* The pointer read that stays in page 0.
Read16Zp(mem, p) == ByteAt(mem, p % 256) + 256 * ByteAt(mem, (p + 1) % 256)

(***************************************************************************)
(* C21.  In Indirect mode the effective address is                         *)
(* read16_bug(read16(PC)): the 16-bit pointer is the two operand bytes at  *)
(* PC, and when its low byte is 0xFF the high byte of the target comes     *)
(* from pointer & 0xFF00.                                                  *)
(***************************************************************************)
C21_Indirect ==
    AddrReturned("Indirect") => AddrResult = Read16Bug(last.memory, OperandWord)

(***************************************************************************)
(* C22.  ZeroPage,X resolves to (b + X) mod 256 and ZeroPage,Y to          *)
(* (b + Y) mod 256, b being the operand byte: the address is always in     *)
(* 0x0000..0x00FF, and b = 0xFF with X = 1 gives 0x0000.                   *)
(***************************************************************************)
C22_ZeroPageIndexed ==
    /\ AddrReturned("ZeroPageX") =>
            (AddrResult = (OperandByte + last.reg_x) % 256 /\ AddrResult \in 0..255)
    /\ AddrReturned("ZeroPageY") =>
            (AddrResult = (OperandByte + last.reg_y) % 256 /\ AddrResult \in 0..255)

C22_Witness ==
    /\ AddrReturned("ZeroPageX")
    /\ OperandByte = 255
    /\ last.reg_x = 1
    /\ AddrResult = 0

(***************************************************************************)
(* C23.  AbsoluteX mode resolves to (read16(PC) + X) mod 2^16, whatever Y  *)
(* holds.                                                                  *)
(***************************************************************************)
C23_AbsoluteX ==
    AddrReturned("AbsoluteX") => AddrResult = (OperandWord + last.reg_x) % 65536

(***************************************************************************)
(* C24.  (Indirect,X) mode succeeds for every operand byte b and every X,  *)
(* b + X > 0xFF included, and resolves to the value whose low byte is      *)
(* memory[(b + X) mod 256] and whose high byte is                          *)
(* memory[(b + X + 1) mod 256].                                            *)
(***************************************************************************)
C24_IndirectX ==
    AddrCalled("IndirectX") =>
        /\ mode # "Panicked"
        /\ AddrResult = Read16Zp(last.memory, OperandByte + last.reg_x)

(***************************************************************************)
(* C25.  (Indirect),Y mode resolves to (base + Y) mod 2^16, base being the *)
(* zero-page pointer read at the operand byte b; X plays no part.          *)
(***************************************************************************)
C25_IndirectY ==
    AddrReturned("IndirectY") =>
        AddrResult = (Read16Zp(last.memory, OperandByte) + last.reg_y) % 65536

(***************************************************************************)
(* C26.  get_operand_address, in every mode it handles, changes neither PC *)
(* nor A, X, Y, P nor any memory byte.                                     *)
(***************************************************************************)
C26_AddressingFrame ==
    (last.op = "get_operand_address" /\ mode # "Panicked") =>
        /\ last.arg[1] \in HandledModes
        /\ pc = last.opcode_pc
        /\ acc_reg = last.acc_reg
        /\ reg_x = last.reg_x
        /\ reg_y = last.reg_y
        /\ status = last.status
        /\ memory = last.memory

C26_Witness ==
    /\ AddrReturned("IndirectY")
    /\ pc = 16
    /\ AddrResult # 0

(***************************************************************************)
(* C27.  adc, with any addressing mode it handles, changes only A and the  *)
(* N, V, Z, C bits of P: X, Y, PC, every memory byte and status bits 2-5   *)
(* are after the call what they were before it.                            *)
(***************************************************************************)
StatusBits2To5(st) == (st \div 4) % 16

AdcReturned == last.op = "adc" /\ mode # "Panicked"

C27_AdcFrame ==
    AdcReturned =>
        /\ reg_x = last.reg_x
        /\ reg_y = last.reg_y
        /\ pc = last.opcode_pc
        /\ memory = last.memory
        /\ StatusBits2To5(status) = StatusBits2To5(last.status)

C27_Witness ==
    /\ AdcReturned
    /\ last.arg[1] = "AbsoluteY"
    /\ acc_reg # last.acc_reg
    /\ StatusBits2To5(status) = 15

(***************************************************************************)
(* C28.  Every descriptor create_ops_info inserts has the size its         *)
(* addressing mode implies: 1 for Implicit and Accumulator; 2 for          *)
(* Immediate, ZeroPage, ZeroPageX, ZeroPageY, Relative, IndirectX and      *)
(* IndirectY; 3 for Absolute, AbsoluteX, AbsoluteY and Indirect.           *)
(***************************************************************************)
InstructionLength(addressing_mode) ==
    CASE addressing_mode \in {"Implicit", "Accumulator"} -> 1
      [] addressing_mode \in {"Immediate", "ZeroPage", "ZeroPageX", "ZeroPageY",
                              "Relative", "IndirectX", "IndirectY"} -> 2
      [] addressing_mode \in {"Absolute", "AbsoluteX", "AbsoluteY", "Indirect"} -> 3

C28_SizeMatchesMode ==
    \A k \in DOMAIN hash : hash[k].size = InstructionLength(hash[k].addressing_mode)

====
